---- MODULE Spec2Model ----
(***************************************************************************)
(* Model of the order request validation and dispatch of                   *)
(* MetaTraderMCPServer/client/functions/send_order.py.                     *)
(*                                                                         *)
(* Python values are modelled with their run-time type: a number is a      *)
(* record [t, n] where t is "float", "int" or "str" (a non-numeric value)  *)
(* and n is the magnitude in fixed-point units of 1/Scale.                 *)
(***************************************************************************)
EXTENDS Integers, Sequences, FiniteSets, TLC

VARIABLES pc, req, result, sendCount, sentRequest, symbolsReply, orderReply, lastError

\* place_pending_order: the pending order being placed
VARIABLES pending

\* MT5Connection: the object, the terminal link, the running call, the
\* wall clock and the record of what the calls did
VARIABLES conn, term, frame, clock, hist

\* the state of one send_order call
orderVars == <<pc, req, result, sendCount, sentRequest, symbolsReply, orderReply>>

connVars == <<conn, term, frame, clock, hist>>

\* the type registry call, the position/order/history query and the
\* module state of mcp_server.logic.mt5_connection with its threads
VARIABLES reg, query, srv

restVars == <<reg, query, srv>>

vars == <<pc, req, result, sendCount, sentRequest, symbolsReply, orderReply, lastError,
          pending, conn, term, frame, clock, hist, reg, query, srv>>

(***************************************************************************)
(* Bounds of the model.                                                    *)
(***************************************************************************)
\* fixed-point resolution: one lot = Scale units, so 100.01 lots is exact
Scale == 100
\* price levels (price, sl, tp) range over 0..MaxPrice
MaxPrice == 2

(***************************************************************************)
(* Python values.                                                          *)
(***************************************************************************)
FloatV(n) == [t |-> "float", n |-> n]
IntV(n) == [t |-> "int", n |-> n]
\* a value float() cannot convert, such as "abc" or None
NonNumeric == [t |-> "str", n |-> 0]

IsFloat(x) == x.t = "float"
IsNumber(x) == x.t \in {"float", "int"}

\* float(x): defined on numbers only; on anything else Python raises
Float(x) == FloatV(x.n)

(***************************************************************************)
(* Type registry: the closed enumerations and their codes.                 *)
(***************************************************************************)
OrderTypeCode ==
  [ BUY |-> 0, SELL |-> 1, BUY_LIMIT |-> 2, SELL_LIMIT |-> 3, BUY_STOP |-> 4,
    SELL_STOP |-> 5, BUY_STOP_LIMIT |-> 6, SELL_STOP_LIMIT |-> 7, CLOSE_BY |-> 8 ]

OrderTypeNames == DOMAIN OrderTypeCode

TradeRequestActionCode ==
  [ DEAL |-> 1, PENDING |-> 5, SLTP |-> 6, MODIFY |-> 7, REMOVE |-> 8, CLOSE_BY |-> 10 ]

TradeRequestActionNames == DOMAIN TradeRequestActionCode

\* a caller passes an enumeration member by name or by numeric code
ByName(nm) == [rep |-> "name", name |-> nm, code |-> -1]
ByCode(c) == [rep |-> "code", name |-> "", code |-> c]

\* to_string(code): the name of the member with that code
OrderTypeToString(c) ==
  IF \E nm \in OrderTypeNames : OrderTypeCode[nm] = c
  THEN CHOOSE nm \in OrderTypeNames : OrderTypeCode[nm] = c
  ELSE "UNKNOWN"

TradeRequestActionToString(c) ==
  IF \E nm \in TradeRequestActionNames : TradeRequestActionCode[nm] = c
  THEN CHOOSE nm \in TradeRequestActionNames : TradeRequestActionCode[nm] = c
  ELSE "UNKNOWN"

\* validate(x): the single normalisation step to the canonical member
OrderTypeValidate(x) ==
  IF x.rep = "name" THEN x.name ELSE OrderTypeToString(x.code)

TradeRequestActionsValidate(x) ==
  IF x.rep = "name" THEN x.name ELSE TradeRequestActionToString(x.code)

(***************************************************************************)
(* The terminal: symbol catalogue, order_send replies, last_error.         *)
(***************************************************************************)
Catalogue == {"EURUSD", "GBPUSD"}

\* mt5.symbols_get(group) answers with the matching symbols, or with None
\* when the call itself fails
SymbolsGet(group) == {s \in Catalogue : s = group}

NoneReply == [ok |-> FALSE, names |-> {}]
SymbolsReplies(group) == {NoneReply, [ok |-> TRUE, names |-> SymbolsGet(group)]}

\* last_error() codes: 1 is success, negative codes are failed calls
LastErrorCodes == {1, -1, -10004}

ErrorDescription(c) ==
  CASE c = 1 -> "Success"
    [] c = -1 -> "Terminal: Call failed"
    [] OTHER -> "No IPC connection"

\* mt5.order_send(request): either the call fails (None, negative
\* last_error) or it yields a result whose retcode says whether the trade
\* server executed or rejected the order; last_error is then 1 (success)
OrderSendReplies ==
  {[data |-> "None", retcode |-> "NONE", last_error |-> c] :
      c \in {c \in LastErrorCodes : c < 0}}
  \cup
  {[data |-> "OrderSendResult", retcode |-> r, last_error |-> 1] :
      r \in {"DONE", "INVALID_STOPS", "NO_MONEY"}}

NoOrderReply == [data |-> "None", retcode |-> "NONE", last_error |-> 1]

\* the terminal accepted (executed) the order
Accepted(reply) == reply.data = "OrderSendResult" /\ reply.retcode = "DONE"

(***************************************************************************)
(* send_order: its arguments and its results.                              *)
(***************************************************************************)
\* volume <= 100 lots
VolumeLimit == 100

ActionInputs == {ByName(nm) : nm \in TradeRequestActionNames} \cup {ByCode(1)}
OrderTypeInputs == {ByName(nm) : nm \in OrderTypeNames} \cup {ByCode(0)}
SymbolInputs == Catalogue \cup {"NOTASYMBOL"}
VolumeInputs ==
  {FloatV(n) : n \in {-1, 0, 1, VolumeLimit * Scale, VolumeLimit * Scale + 1}}
  \cup {IntV(Scale)}
PriceInputs == {FloatV(n) : n \in 0..MaxPrice} \cup {IntV(1)}
LevelInputs == {FloatV(n) : n \in 0..MaxPrice} \cup {IntV(1), NonNumeric}
CommentInputs == {"", "note"}

\* type_filling and type_time default to None
OrderFillingInputs == {"None", "FOK", "IOC", "RETURN"}
OrderTimeInputs == {"None", "GTC", "DAY", "SPECIFIED", "SPECIFIED_DAY"}

Requests ==
  [ action : ActionInputs, symbol : SymbolInputs, volume : VolumeInputs,
    order_type : OrderTypeInputs, price : PriceInputs, sl : LevelInputs,
    tp : LevelInputs, comment : CommentInputs,
    type_filling : {"None"}, type_time : {"None"} ]

\* well-typed requests that vary the filling mode and the lifetime
FrameRequests ==
  [ action : {ByName("DEAL"), ByName("PENDING")}, symbol : SymbolInputs,
    volume : {FloatV(1)}, order_type : {ByName("BUY"), ByName("SELL")},
    price : {FloatV(n) : n \in 0..MaxPrice}, sl : {FloatV(n) : n \in 0..MaxPrice},
    tp : {FloatV(n) : n \in 0..MaxPrice}, comment : {""},
    type_filling : OrderFillingInputs, type_time : OrderTimeInputs ]

NoRequest ==
  [ action |-> ByName("DEAL"), symbol |-> "", volume |-> FloatV(0),
    order_type |-> ByName("BUY"), price |-> FloatV(0), sl |-> FloatV(0),
    tp |-> FloatV(0), comment |-> "", type_filling |-> "None",
    type_time |-> "None" ]

\* a message is a fixed text, or the format "Error {code}: {description}"
Msg(text) == [fmt |-> text, code |-> 0, desc |-> ""]
ErrorMsg(c, d) == [fmt |-> "Error {code}: {description}", code |-> c, desc |-> d]
NoMessage == Msg("")

\* return {"success": ..., "message": ...}
Returned(success, msg) ==
  [kind |-> "return", success |-> success, keys |-> {"success", "message"},
   message |-> msg]
\* an exception leaves send_order
Raised(exc) ==
  [kind |-> "raise", success |-> FALSE, keys |-> {}, message |-> Msg(exc)]
\* validation passed, the request goes to the terminal
Proceed == [kind |-> "proceed", success |-> FALSE, keys |-> {}, message |-> NoMessage]
NoResult == [kind |-> "none", success |-> FALSE, keys |-> {}, message |-> NoMessage]

\* the final return statement, reached by every action other than DEAL
UnknownErrorResult ==
  [kind |-> "return", success |-> FALSE,
   keys |-> {"success", "return_code", "return_message", "request", "result"},
   message |-> NoMessage]

\* the emptiness test mistyped as a comparison that is never true
SymbolInvalidNever(reply) == Cardinality(reply.names) < 0

\* len(_market.get_symbols(symbol)) == 0
SymbolInvalid(reply) == Cardinality(reply.names) = 0

\* the lower bound mistyped as volume < 0
VolumeInvalidOffByOne(v) == v.n < 0 \/ v.n > VolumeLimit * Scale

\* volume <= 0 or volume > 100
VolumeInvalid(v) == v.n <= 0 \/ v.n > VolumeLimit * Scale

\* the test for a market type replaced by a test for any known type
OrderTypeUnknown(ot) == ot \notin OrderTypeNames

\* order_type not in [BUY, SELL]
OrderTypeInvalidForDeal(ot) == ot \notin {"BUY", "SELL"}

\* the BUY comparison weakened from >= to >
SLPriceCheckStrict(ot, price, sl) ==
  CASE ot = "BUY" /\ sl.n > price.n -> "Stop loss must be below the price"
    [] ot = "SELL" /\ sl.n <= price.n -> "Stop loss must be above the price"
    [] OTHER -> ""

\* the check of SL against the price of the request; "" when it passes
SLPriceCheck(ot, price, sl) ==
  CASE ot = "BUY" /\ sl.n >= price.n -> "Stop loss must be below the price"
    [] ot = "SELL" /\ sl.n <= price.n -> "Stop loss must be above the price"
    [] OTHER -> ""

\* the two comparisons of SL against TP exchanged between the sides
SLTPCheckSwapped(ot, sl, tp) ==
  CASE ot = "BUY" /\ sl.n < tp.n -> "Stop loss must be below the take profit"
    [] ot = "SELL" /\ sl.n > tp.n -> "Stop loss must be above the take profit"
    [] OTHER -> ""

\* the check of SL against TP; "" when it passes
SLTPCheck(ot, sl, tp) ==
  CASE ot = "BUY" /\ sl.n > tp.n -> "Stop loss must be below the take profit"
    [] ot = "SELL" /\ sl.n < tp.n -> "Stop loss must be above the take profit"
    [] OTHER -> ""

\* case TradeRequestActions.DEAL, up to the call of order_send
DealValidate(ot, price, sl, tp) ==
  IF OrderTypeInvalidForDeal(ot)
  THEN Returned(FALSE, Msg("Invalid order type, must be BUY or SELL"))
  ELSE IF SLPriceCheck(ot, price, sl) # ""
  THEN Returned(FALSE, Msg(SLPriceCheck(ot, price, sl)))
  ELSE IF SLTPCheck(ot, sl, tp) # ""
  THEN Returned(FALSE, Msg(SLTPCheck(ot, sl, tp)))
  ELSE Proceed

\* sl = float(sl); tp = float(tp); the isinstance test that follows
LevelsValidate(sl, tp) ==
  IF ~IsNumber(sl) \/ ~IsNumber(tp)
  THEN Raised("ValueError")
  ELSE IF ~IsFloat(Float(sl)) \/ ~IsFloat(Float(tp))
  THEN Returned(FALSE, Msg("Invalid SL or TP"))
  ELSE Proceed

\* send_order from its first statement up to the call of order_send
Validate(r, reply) ==
  IF ~reply.ok
  THEN Raised("TypeError")
  ELSE IF SymbolInvalid(reply)
  THEN Returned(FALSE, Msg("Invalid symbol"))
  ELSE IF VolumeInvalid(r.volume)
  THEN Returned(FALSE, Msg("Invalid volume"))
  ELSE IF ~IsFloat(r.price)
  THEN Returned(FALSE, Msg("Invalid price"))
  ELSE IF LevelsValidate(r.sl, r.tp).kind # "proceed"
  THEN LevelsValidate(r.sl, r.tp)
  ELSE IF TradeRequestActionsValidate(r.action) = "DEAL"
  THEN DealValidate(OrderTypeValidate(r.order_type), r.price, Float(r.sl), Float(r.tp))
  ELSE UnknownErrorResult

\* the dictionary passed to mt5.order_send
BuildRequest(r) ==
  [ symbol |-> r.symbol, volume |-> Float(r.volume),
    type |-> OrderTypeValidate(r.order_type), price |-> r.price,
    action |-> TradeRequestActionsValidate(r.action), type_filling |-> "FOK",
    comment |-> IF r.comment # "" THEN r.comment ELSE "MCP",
    sl |-> Float(r.sl), tp |-> Float(r.tp), deviation |-> 20 ]

NoSentRequest == BuildRequest(NoRequest)

\* the result send_order builds from last_error() after order_send
Interpret(code) ==
  IF code < 0
  THEN Returned(FALSE, ErrorMsg(code, ErrorDescription(code)))
  ELSE Returned(TRUE, Msg("Order sent successfully"))

(***************************************************************************)
(* place_pending_order and MT5Connection: the values they start from.      *)
(***************************************************************************)
\* no pending order has been asked for
NoPending ==
  [ phase |-> "idle", type |-> "BUY", symbol |-> "", price |-> 0, ask |-> 0,
    bid |-> 0, order_type |-> "" ]

\* the configurations range over max_retries in 1..MaxRetriesBound
MaxRetriesBound == 3
\* the wall clock is not followed beyond MaxTime units
MaxTime == 100
\* clock units per second: backoff_factor ** retries is exact up to retries = 3
TimeUnit == 8

\* config.get("max_retries", 3)
MaxRetriesDefault == 3
\* config.get("cooldown_time", 2.0), in seconds
CooldownTime == 2
\* config.get("backoff_factor", 1.5) as the fraction BackoffNum / BackoffDen
BackoffNum == 3
BackoffDen == 2

\* MT5Connection.__init__: the configuration and the two private fields.
\* credentials: "none" (login, password or server missing), "given", or
\* "malformed" (a login that int() refuses)
NewConnection(max_retries, credentials) ==
  [ max_retries |-> max_retries, credentials |-> credentials,
    cooldown_time |-> CooldownTime * TimeUnit,
    connected |-> FALSE, last_connection_time |-> 0 ]

Configurations ==
  { NewConnection(m, c) :
      m \in 1..MaxRetriesBound, c \in {"none", "given", "malformed"} }

\* the terminal link of the process (terminal_info() is not None) and
\* the account it is logged in to: "none" (account_info() is None), the
\* account of the configuration, or another account
Terminals ==
  { [initialized |-> FALSE, account |-> "none"],
    [initialized |-> TRUE, account |-> "none"],
    [initialized |-> TRUE, account |-> "configured"],
    [initialized |-> TRUE, account |-> "other"] }

NoTerminal == [initialized |-> FALSE, account |-> "none"]

NoOutcome == [kind |-> "none", value |-> "", cause |-> ""]

NoSleep == [phase |-> "none", code |-> 0, retries |-> 0, base |-> 0]

\* no connect() or disconnect() is running.  A running call records the
\* timestamp the previous attempt left (prevStamp), the cooldown it slept,
\* when it first contacted the terminal (contactAt), its attempts and its
\* last retry wait
NoFrame ==
  [ op |-> "none", pc |-> "idle", retries |-> 0, initAttempts |-> 0,
    loginAttempts |-> 0, initFailures |-> 0, loginFailures |-> 0,
    shutdownCalls |-> 0, prevStamp |-> 0, cooldownSlept |-> 0,
    contactAt |-> 0, lastSleep |-> NoSleep, outcome |-> NoOutcome ]

\* what the calls so far did: whether a connect() of this object initialized
\* the link and it was not shut down since, whether a connect() ever
\* returned, and the previous completed call
NoHist ==
  [ linkHeld |-> FALSE, everConnected |-> FALSE, prevOp |-> "none",
    prevOutcome |-> NoOutcome ]

\* Python values of the registry and query arguments: None, an int, a str
PyNone == [t |-> "None", n |-> 0, s |-> ""]
PyInt(k) == [t |-> "int", n |-> k, s |-> ""]
PyStr(x) == [t |-> "str", n |-> 0, s |-> x]
PyBool(b) == [t |-> "bool", n |-> IF b THEN 1 ELSE 0, s |-> ""]

\* no registry lookup is running
NoRegistryCall ==
  [ enum |-> "none", fn |-> "none", arg |-> PyNone, default |-> PyNone,
    out |-> PyNone ]

NoQueryOut == [kind |-> "none", rows |-> {}, error |-> ""]

\* no query is running
NoQuery ==
  [ fn |-> "none", phase |-> "idle", ticket |-> PyNone,
    symbol_name |-> PyNone, group |-> PyNone, order_type |-> PyNone,
    connected |-> FALSE, lookups |-> 0, calls |-> 0, filter |-> "none",
    failed |-> FALSE, out |-> NoQueryOut ]

\* the threads that call into mcp_server.logic.mt5_connection
Threads == {"t1", "t2"}

\* _reconnect_interval = 60  # seconds between reconnection attempts
ReconnectInterval == 60

NoReturn == [kind |-> "none", value |-> 0, shut |-> FALSE]

\* a thread outside the module
NoThread ==
  [ op |-> "idle", pc |-> "idle", nested |-> FALSE, initResult |-> FALSE,
    checkedAt |-> 0, lastSeen |-> 0, attempted |-> FALSE, ret |-> NoReturn ]

\* the module globals after import (mt5_client = None is client 0), the
\* settings, the client objects and the wall clock
NoServer(available, credentials) ==
  [ mt5_client |-> 0, last_connection_attempt |-> 0, lock |-> "free",
    available |-> available, has_credentials |-> credentials,
    made |-> 0, live |-> {}, shut |-> {}, now |-> ReconnectInterval,
    th |-> [t \in Threads |-> NoThread] ]

(***************************************************************************)
(* The state machine: one call of send_order at a time.                    *)
(***************************************************************************)
Init ==
  /\ pending = NoPending
  /\ conn = NewConnection(MaxRetriesDefault, "none")
  /\ term = NoTerminal
  /\ frame = NoFrame
  /\ clock = 1
  /\ hist = NoHist
  /\ reg = NoRegistryCall
  /\ query = NoQuery
  /\ srv = NoServer(TRUE, TRUE)
  /\ pc = "idle"
  /\ req = NoRequest
  /\ result = NoResult
  /\ sendCount = 0
  /\ sentRequest = NoSentRequest
  /\ symbolsReply = NoneReply
  /\ orderReply = NoOrderReply
  /\ lastError = 1

\* send_order is called with a request of R: the symbol lookup and the
\* validation
CallOn(R) ==
  /\ pc = "idle"
  /\ \E r \in R : \E reply \in SymbolsReplies(r.symbol) :
       /\ req' = r
       /\ symbolsReply' = reply
       /\ lastError' = IF reply.ok THEN 1 ELSE -1
       /\ IF Validate(r, reply).kind = "proceed"
          THEN pc' = "send" /\ result' = NoResult
          ELSE pc' = "done" /\ result' = Validate(r, reply)
  /\ UNCHANGED <<sendCount, sentRequest, orderReply>>
  /\ UNCHANGED <<pending, connVars>>
  /\ UNCHANGED restVars

Call == CallOn(Requests)

CallFrame == CallOn(FrameRequests)

\* mt5.order_send({...}): the terminal answers
OrderSend ==
  /\ pc = "send"
  /\ \E reply \in OrderSendReplies :
       /\ orderReply' = reply
       /\ lastError' = reply.last_error
  /\ sentRequest' = BuildRequest(req)
  /\ sendCount' = sendCount + 1
  /\ pc' = "sent"
  /\ UNCHANGED <<req, result, symbolsReply>>
  /\ UNCHANGED <<pending, connVars>>
  /\ UNCHANGED restVars

\* a failed submission is sent again before the result is returned
FinishRetry ==
  /\ pc = "sent"
  /\ IF lastError < 0 /\ sendCount < 2
     THEN pc' = "send" /\ result' = result
     ELSE pc' = "done" /\ result' = Interpret(lastError)
  /\ UNCHANGED <<req, sendCount, sentRequest, symbolsReply, orderReply, lastError>>
  /\ UNCHANGED <<pending, connVars>>
  /\ UNCHANGED restVars

\* error_code, error_description = mt5.last_error() and the return
Finish ==
  /\ pc = "sent"
  /\ result' = Interpret(lastError)
  /\ pc' = "done"
  /\ UNCHANGED <<req, sendCount, sentRequest, symbolsReply, orderReply, lastError>>
  /\ UNCHANGED <<pending, connVars>>
  /\ UNCHANGED restVars

\* the caller has the result; the next call starts afresh
Return ==
  /\ pc = "done"
  /\ pc' = "idle"
  /\ req' = NoRequest
  /\ result' = NoResult
  /\ sendCount' = 0
  /\ sentRequest' = NoSentRequest
  /\ symbolsReply' = NoneReply
  /\ orderReply' = NoOrderReply
  /\ UNCHANGED lastError
  /\ UNCHANGED <<pending, connVars>>
  /\ UNCHANGED restVars

Next == Call \/ OrderSend \/ Finish \/ Return

Spec == Init /\ [][Next]_vars

\* send_order on requests that set the filling mode and the lifetime
FrameNext == CallFrame \/ OrderSend \/ Finish \/ Return

FrameSpec == Init /\ [][FrameNext]_vars

(***************************************************************************)
(* Vocabulary of the properties.                                           *)
(***************************************************************************)
InCall == pc # "idle"
Done == pc = "done"
Submitted == sendCount > 0
\* the terminal answered the symbol lookup
LookupAnswered == symbolsReply.ok
Resolvable == LookupAnswered /\ req.symbol \in Catalogue
NumericLevels == IsNumber(req.sl) /\ IsNumber(req.tp)
IsDeal == TradeRequestActionsValidate(req.action) = "DEAL"
Side == OrderTypeValidate(req.order_type)
VolumeInBounds == 0 < req.volume.n /\ req.volume.n <= VolumeLimit * Scale
\* a failure is returned to the caller and nothing went to the terminal
Rejected ==
  /\ result.kind = "return"
  /\ result.success = FALSE
  /\ "message" \in result.keys
  /\ sendCount = 0
\* the call never reaches order_send; once it ends, it ends Rejected
RejectedUnsent == InCall => pc = "done" /\ Rejected

(***************************************************************************)
(* C1: whenever the terminal does not accept a submitted order, the        *)
(* result is success=False with the message "Error {code}: {description}", *)
(* and success=True is returned only for an accepted order.                *)
(***************************************************************************)
C1_RejectionReported ==
  Done /\ Submitted =>
    /\ ~Accepted(orderReply) =>
         /\ result.kind = "return"
         /\ result.success = FALSE
         /\ result.message.fmt = "Error {code}: {description}"
    /\ result.success => Accepted(orderReply)

(***************************************************************************)
(* C2: a DEAL BUY on a resolvable symbol with a valid volume and with both *)
(* stop-loss and take-profit left at zero passes validation and is         *)
(* submitted to the terminal.                                              *)
(***************************************************************************)
C2_NoStopsSubmitted ==
  /\ Done /\ Resolvable /\ IsDeal /\ Side = "BUY" /\ VolumeInBounds
  /\ IsFloat(req.price) /\ req.sl = FloatV(0) /\ req.tp = FloatV(0)
  => Submitted

(***************************************************************************)
(* C3: a DEAL BUY whose stop_loss >= entry price E, and a DEAL SELL whose  *)
(* nonzero stop_loss <= E, is rejected: a failure result is returned and   *)
(* no order is submitted.                                                  *)
(***************************************************************************)
C3_WrongSideStopLoss ==
  /\ IsDeal /\ NumericLevels
  /\ \/ Side = "BUY" /\ req.sl.n >= req.price.n
     \/ Side = "SELL" /\ req.sl.n # 0 /\ req.sl.n <= req.price.n

C3_StopLossAgainstEntry ==
  /\ InCall /\ C3_WrongSideStopLoss => ~Submitted /\ pc = "done"
  /\ InCall /\ C3_WrongSideStopLoss /\ LookupAnswered => Rejected

C3_Witness ==
  /\ Done /\ IsDeal /\ Side = "SELL" /\ req.sl.n # 0 /\ req.sl.n <= req.price.n
  /\ result = Returned(FALSE, Msg("Stop loss must be above the price"))
  /\ ~Submitted

(***************************************************************************)
(* C4 as stated: a DEAL BUY whose stop_loss is not strictly below          *)
(* take_profit (equality included) is rejected, and a DEAL SELL whose      *)
(* stop_loss is not strictly above take_profit (equality included) is      *)
(* rejected.  Stated for levels that are both set (nonzero).               *)
(***************************************************************************)
C4_StrictlyBeyondTakeProfit ==
  /\ InCall /\ IsDeal /\ NumericLevels /\ LookupAnswered
  /\ req.sl.n # 0 /\ req.tp.n # 0
  /\ \/ Side = "BUY" /\ ~(req.sl.n < req.tp.n)
     \/ Side = "SELL" /\ ~(req.sl.n > req.tp.n)
  => RejectedUnsent

(***************************************************************************)
(* C4 amended: a DEAL BUY whose stop_loss is above take_profit is          *)
(* rejected and a DEAL SELL whose stop_loss is below take_profit is        *)
(* rejected; a stop_loss equal to take_profit is not rejected by this      *)
(* check: such a request that passes the other checks is submitted.        *)
(***************************************************************************)
C4_StopLossBeyondTakeProfit ==
  /\ /\ InCall /\ IsDeal /\ NumericLevels /\ LookupAnswered
     /\ \/ Side = "BUY" /\ req.sl.n > req.tp.n
        \/ Side = "SELL" /\ req.sl.n < req.tp.n
     => RejectedUnsent
  /\ /\ Done /\ IsDeal /\ NumericLevels /\ Resolvable /\ VolumeInBounds
     /\ IsFloat(req.price) /\ req.sl.n = req.tp.n
     /\ \/ Side = "BUY" /\ req.sl.n < req.price.n
        \/ Side = "SELL" /\ req.sl.n > req.price.n
     => Submitted

C4_Witness ==
  /\ Done /\ IsDeal /\ Side = "BUY" /\ req.sl.n > req.tp.n
  /\ result = Returned(FALSE, Msg("Stop loss must be below the take profit"))
  /\ ~Submitted

(***************************************************************************)
(* C5: the volume check accepts v iff 0 < v <= 100: on a resolvable        *)
(* symbol the failure "Invalid volume" is returned exactly for the volumes *)
(* outside that range (0, 100.01, negatives), and no request with such a   *)
(* volume is submitted.                                                    *)
(***************************************************************************)
C5_VolumeAcceptedIff ==
  /\ Done /\ Resolvable =>
       (result = Returned(FALSE, Msg("Invalid volume")) <=> ~VolumeInBounds)
  /\ pc \in {"send", "sent"} \/ Submitted => VolumeInBounds

C5_Witness ==
  /\ Done /\ Resolvable
  /\ req.volume = FloatV(VolumeLimit * Scale + 1)
  /\ result = Returned(FALSE, Msg("Invalid volume"))

(***************************************************************************)
(* C6: a DEAL request whose order type is not BUY or SELL is never         *)
(* submitted to the terminal and is rejected with a returned failure.      *)
(***************************************************************************)
C6_DealNeedsMarketType ==
  /\ InCall /\ IsDeal /\ Side \notin {"BUY", "SELL"} => ~Submitted /\ pc = "done"
  /\ InCall /\ IsDeal /\ Side \notin {"BUY", "SELL"} /\ NumericLevels /\ LookupAnswered
       => Rejected

C6_Witness ==
  /\ Done /\ IsDeal /\ Side = "BUY_LIMIT"
  /\ result = Returned(FALSE, Msg("Invalid order type, must be BUY or SELL"))
  /\ ~Submitted

(***************************************************************************)
(* C7: a request for a symbol the terminal cannot resolve returns a        *)
(* failure with message "Invalid symbol" and order_send is never invoked,  *)
(* whatever the other parameters are.                                      *)
(***************************************************************************)
C7_InvalidSymbol ==
  InCall /\ LookupAnswered /\ req.symbol \notin Catalogue =>
    /\ pc = "done"
    /\ result = Returned(FALSE, Msg("Invalid symbol"))
    /\ sendCount = 0
    /\ sentRequest = NoSentRequest

C7_Witness ==
  /\ Done /\ LookupAnswered /\ req.symbol = "NOTASYMBOL"
  /\ ~VolumeInBounds /\ ~NumericLevels
  /\ result = Returned(FALSE, Msg("Invalid symbol"))
  /\ sendCount = 0

(***************************************************************************)
(* C8: order submission is never retried: a call invokes order_send at     *)
(* most once, and after that single submission the call returns its        *)
(* result; a submission that failed is returned as a failure.              *)
(***************************************************************************)
C8_NoRetry ==
  /\ sendCount <= 1
  /\ pc = "send" => sendCount = 0
  /\ pc = "sent" => sendCount = 1
  /\ Done /\ Submitted => result.kind = "return"
  /\ Done /\ Submitted /\ orderReply.data = "None" => result.success = FALSE

C8_Witness ==
  /\ Done /\ sendCount = 1 /\ orderReply.data = "None"
  /\ result.kind = "return" /\ result.success = FALSE

(***************************************************************************)
(* C9: validation never raises: every validation failure, a non-numeric    *)
(* price, stop-loss or take-profit included, is a returned                 *)
(* {success: False, message: reason}.                                      *)
(***************************************************************************)
C9_ValidationNeverRaises ==
  Done /\ LookupAnswered => result.kind = "return"

(***************************************************************************)
(* C10: the checks run in the order symbol, volume, price numeric,         *)
(* stop-loss/take-profit numeric, then for DEAL the order type and the     *)
(* SL/TP side-consistency; the returned reason is the one of the earliest  *)
(* violated check.                                                         *)
(***************************************************************************)
C10_SideReasons ==
  { Msg("Stop loss must be below the price"),
    Msg("Stop loss must be above the price"),
    Msg("Stop loss must be below the take profit"),
    Msg("Stop loss must be above the take profit") }

C10_EarliestReasons ==
  IF req.symbol \notin Catalogue THEN {Msg("Invalid symbol")}
  ELSE IF ~VolumeInBounds THEN {Msg("Invalid volume")}
  ELSE IF ~IsFloat(req.price) THEN {Msg("Invalid price")}
  ELSE IF ~NumericLevels THEN {Msg("Invalid SL or TP")}
  ELSE IF IsDeal /\ Side \notin {"BUY", "SELL"}
  THEN {Msg("Invalid order type, must be BUY or SELL")}
  ELSE C10_SideReasons

C10_EarliestCheckReported ==
  Done /\ LookupAnswered /\ ~Submitted /\ IsDeal =>
    /\ result.kind = "return"
    /\ result.message \in C10_EarliestReasons

(***************************************************************************)
(* C11: when the terminal accepts an order, the returned result reports    *)
(* success and carries the terminal's raw result object as a non-null      *)
(* data field.                                                             *)
(***************************************************************************)
C11_AcceptedCarriesData ==
  Done /\ Submitted /\ Accepted(orderReply) =>
    /\ result.kind = "return"
    /\ result.success = TRUE
    /\ "data" \in result.keys

(***************************************************************************)
(* C12: every result send_order returns, for every action and every        *)
(* outcome, is a dictionary with both a success and a message entry.       *)
(***************************************************************************)
C12_ResultShape ==
  Done /\ result.kind = "return" => {"success", "message"} \subseteq result.keys

(***************************************************************************)
(* C14: the order filling mode and the order time-in-force the caller      *)
(* supplies appear unmodified in the request submitted to the terminal.    *)
(***************************************************************************)
C14_FillingAndTimePassedThrough ==
  Submitted =>
    /\ req.type_filling # "None" => sentRequest.type_filling = req.type_filling
    /\ req.type_time # "None" =>
         /\ "type_time" \in DOMAIN sentRequest
         /\ sentRequest.type_time = req.type_time

(***************************************************************************)
(* place_pending_order: the caller names the side (BUY or SELL) and the    *)
(* price; the subtype is derived from the current tick of the symbol.      *)
(***************************************************************************)
\* requested prices and quotes
PendingPrices == 0..(MaxPrice + 1)

\* SELL compared against the ask instead of the bid
PendingSubtypeAskOnly(type, price, ask, bid) ==
  IF type = "BUY"
  THEN IF ask > price THEN "BUY_LIMIT" ELSE "BUY_STOP"
  ELSE IF ask < price THEN "SELL_LIMIT" ELSE "SELL_STOP"

\* BUY: LIMIT if ask > price else STOP; SELL: LIMIT if bid < price else STOP
PendingSubtype(type, price, ask, bid) ==
  IF type = "BUY"
  THEN IF ask > price THEN "BUY_LIMIT" ELSE "BUY_STOP"
  ELSE IF bid < price THEN "SELL_LIMIT" ELSE "SELL_STOP"

PlacePendingOrder ==
  /\ pending.phase = "idle"
  /\ \E type \in {"BUY", "SELL"}, symbol \in Catalogue, price \in PendingPrices,
        ask \in PendingPrices, bid \in PendingPrices :
       /\ bid <= ask
       /\ pending' = [ phase |-> "placed", type |-> type, symbol |-> symbol,
                       price |-> price, ask |-> ask, bid |-> bid,
                       order_type |-> PendingSubtype(type, price, ask, bid) ]
  /\ UNCHANGED <<orderVars, lastError, connVars>>
  /\ UNCHANGED restVars

PendingReturn ==
  /\ pending.phase = "placed"
  /\ pending' = NoPending
  /\ UNCHANGED <<orderVars, lastError, connVars>>
  /\ UNCHANGED restVars

PendingNext == PlacePendingOrder \/ PendingReturn

PendingSpec == Init /\ [][PendingNext]_vars

AuthorizationFailed == -6

\* the codes mt5.last_error() reports after a failed initialize or login
ConnectErrorCodes == {AuthorizationFailed, -1}

\* random.uniform(0, 0.5): the ends of the range
Jitters == {0, TimeUnit \div BackoffDen}

\* time that passes between two calls
TickSteps == {TimeUnit, CooldownTime * TimeUnit}

RECURSIVE Pow(_, _)
Pow(b, e) == IF e = 0 THEN 1 ELSE b * Pow(b, e - 1)

\* self.backoff_factor ** retries
Backoff(retries) ==
  (TimeUnit * Pow(BackoffNum, retries)) \div Pow(BackoffDen, retries)

\* one attempt more than max_retries
RetryAllowedInclusive(retries, max_retries) == retries <= max_retries

\* while retries < self.max_retries
RetryAllowed(retries, max_retries) == retries < max_retries

\* no cooldown is ever applied
CooldownNeededNever(now, last, cooldown) == 0

\* _ensure_cooldown: the time to sleep before the attempt is stamped
CooldownNeeded(now, last, cooldown) ==
  IF last > 0 /\ now - last < cooldown THEN cooldown - (now - last) ELSE 0

\* the wait after mt5.initialize answered False, without the jitter
InitializeWait(code, retries, cooldown) ==
  IF code = AuthorizationFailed THEN cooldown * 2 ELSE Backoff(retries)

\* the wait after mt5.login answered False, without the jitter
LoginWait(code, retries, cooldown) == Backoff(retries)

\* the failure is reported by a returned False
ConnectFailedSentinel(cause) ==
  [kind |-> "return", value |-> "False", cause |-> cause]

\* raise ConnectionError(str(e)) from e
ConnectFailed(cause) ==
  [kind |-> "raise", value |-> "ConnectionError", cause |-> cause]

ReturnedTrue == [kind |-> "return", value |-> "True", cause |-> ""]

DisconnectFailed ==
  [kind |-> "raise", value |-> "DisconnectionError", cause |-> ""]

\* shutdown is called whatever the flag says
NeedsShutdownAlways(c) == TRUE

\* if not self._connected: return True
NeedsShutdown(c) == c.connected

\* what mt5.shutdown() does: answer True, answer False, or raise; the text of
\* the error either contains "not initialized" or does not
ShutdownReplies ==
  [ result : {"True", "False", "raise"}, not_initialized : BOOLEAN ]

\* the account the terminal is on after mt5.initialize answered True: with
\* login, password and server passed it is the configured one or none yet,
\* without them whatever the terminal was left on
InitializeAccounts(credentials) ==
  IF credentials = "none" THEN {"none", "other"} ELSE {"none", "configured"}

\* what mt5.terminal_info() answers: None, or the info with its connected
\* flag; or the call raises
TerminalInfoReplies(t) ==
  IF t.initialized
  THEN { [kind |-> "info", connected |-> b] : b \in BOOLEAN }
         \cup { [kind |-> "raise", connected |-> FALSE] }
  ELSE { [kind |-> "None", connected |-> FALSE],
         [kind |-> "raise", connected |-> FALSE] }

\* the _connected flag is not consulted
IsConnectedTerminalOnly(info, connected) ==
  info.kind = "info" /\ info.connected

\* is_connected(): terminal_info is not None and its 'connected' flag and
\* self._connected; an exception gives False
IsConnected(info, connected) ==
  info.kind = "info" /\ info.connected /\ connected

ConnInit ==
  /\ conn \in Configurations
  /\ term \in Terminals
  /\ frame = NoFrame
  /\ clock = 1
  /\ hist = NoHist
  /\ reg = NoRegistryCall
  /\ query = NoQuery
  /\ srv = NoServer(TRUE, TRUE)
  /\ pending = NoPending
  /\ pc = "idle"
  /\ req = NoRequest
  /\ result = NoResult
  /\ sendCount = 0
  /\ sentRequest = NoSentRequest
  /\ symbolsReply = NoneReply
  /\ orderReply = NoOrderReply
  /\ lastError = 1

\* connect() up to the end of _ensure_cooldown
Connect ==
  /\ frame.pc = "idle"
  /\ LET wait == CooldownNeeded(clock, conn.last_connection_time,
                                conn.cooldown_time)
     IN /\ clock + wait <= MaxTime
        /\ clock' = clock + wait
        /\ conn' = [conn EXCEPT !.last_connection_time = clock + wait]
        /\ frame' = [NoFrame EXCEPT !.op = "connect", !.pc = "terminal_info",
                                    !.prevStamp = conn.last_connection_time,
                                    !.cooldownSlept = wait]
  /\ UNCHANGED <<term, hist, pending, orderVars, lastError>>
  /\ UNCHANGED restVars

\* _initialize_terminal from mt5.terminal_info() to the head of the loop
TerminalInfo ==
  /\ frame.pc = "terminal_info"
  /\ IF term.initialized
     THEN /\ frame' = [frame EXCEPT !.contactAt = clock, !.pc = "account_info"]
          /\ UNCHANGED conn
     ELSE IF conn.credentials = "malformed"
     THEN /\ frame' = [frame EXCEPT !.contactAt = clock, !.pc = "done",
                         !.outcome = ConnectFailed("InitializationError")]
          /\ conn' = [conn EXCEPT !.connected = FALSE]
     ELSE /\ frame' = [frame EXCEPT !.contactAt = clock, !.pc = "initialize",
                                    !.retries = 0]
          /\ UNCHANGED conn
  /\ UNCHANGED <<term, hist, clock, pending, orderVars, lastError>>
  /\ UNCHANGED restVars

\* one turn of the loop around mt5.initialize
InitializeAttempt ==
  /\ frame.pc = "initialize"
  /\ RetryAllowed(frame.retries, conn.max_retries)
  /\ \/ /\ \E account \in InitializeAccounts(conn.credentials) :
             term' = [initialized |-> TRUE, account |-> account]
        /\ hist' = [hist EXCEPT !.linkHeld = TRUE]
        /\ frame' = [frame EXCEPT !.initAttempts = @ + 1,
                                  !.pc = "account_info"]
        /\ UNCHANGED <<clock, lastError>>
     \/ \E code \in ConnectErrorCodes, raised \in BOOLEAN, jitter \in Jitters :
          LET base == IF raised THEN Backoff(frame.retries)
                      ELSE InitializeWait(code, frame.retries,
                                          conn.cooldown_time)
          IN /\ clock + base + jitter <= MaxTime
             /\ clock' = clock + base + jitter
             /\ lastError' = code
             /\ frame' = [frame EXCEPT
                            !.initAttempts = @ + 1, !.initFailures = @ + 1,
                            !.retries = @ + 1,
                            !.lastSleep =
                               [ phase |-> "initialize",
                                 code |-> IF raised THEN 0 ELSE code,
                                 retries |-> frame.retries, base |-> base ]]
             /\ UNCHANGED <<term, hist>>
  /\ UNCHANGED <<conn, pending, orderVars>>
  /\ UNCHANGED restVars

\* raise InitializationError after the loop, re-raised by connect()
InitializeExhausted ==
  /\ frame.pc = "initialize"
  /\ ~RetryAllowed(frame.retries, conn.max_retries)
  /\ frame' = [frame EXCEPT !.pc = "done",
                            !.outcome = ConnectFailed("InitializationError")]
  /\ conn' = [conn EXCEPT !.connected = FALSE]
  /\ UNCHANGED <<term, hist, clock, pending, orderVars, lastError>>
  /\ UNCHANGED restVars

\* _login from mt5.account_info() to the head of the loop
AccountInfo ==
  /\ frame.pc = "account_info"
  /\ IF term.account # "none"
        \/ (conn.credentials = "none" /\ term.initialized)
     THEN /\ frame' = [frame EXCEPT !.pc = "done", !.outcome = ReturnedTrue]
          /\ conn' = [conn EXCEPT !.connected = TRUE]
          /\ hist' = [hist EXCEPT !.everConnected = TRUE]
     ELSE IF conn.credentials = "none"
     THEN /\ frame' = [frame EXCEPT !.pc = "done",
                                    !.outcome = ConnectFailed("LoginError")]
          /\ conn' = [conn EXCEPT !.connected = FALSE]
          /\ UNCHANGED hist
     ELSE /\ frame' = [frame EXCEPT !.pc = "login", !.retries = 0]
          /\ UNCHANGED <<conn, hist>>
  /\ UNCHANGED <<term, clock, pending, orderVars, lastError>>
  /\ UNCHANGED restVars

\* one turn of the loop around mt5.login
LoginAttempt ==
  /\ frame.pc = "login"
  /\ RetryAllowed(frame.retries, conn.max_retries)
  /\ \/ /\ term' = [term EXCEPT !.account = "configured"]
        /\ frame' = [frame EXCEPT !.loginAttempts = @ + 1, !.pc = "done",
                                  !.outcome = ReturnedTrue]
        /\ conn' = [conn EXCEPT !.connected = TRUE]
        /\ hist' = [hist EXCEPT !.everConnected = TRUE]
        /\ UNCHANGED <<clock, lastError>>
     \/ \E code \in ConnectErrorCodes, raised \in BOOLEAN, jitter \in Jitters :
          LET base == IF raised THEN Backoff(frame.retries)
                      ELSE LoginWait(code, frame.retries, conn.cooldown_time)
          IN /\ clock + base + jitter <= MaxTime
             /\ clock' = clock + base + jitter
             /\ lastError' = code
             /\ frame' = [frame EXCEPT
                            !.loginAttempts = @ + 1, !.loginFailures = @ + 1,
                            !.retries = @ + 1,
                            !.lastSleep =
                               [ phase |-> "login",
                                 code |-> IF raised THEN 0 ELSE code,
                                 retries |-> frame.retries, base |-> base ]]
             /\ UNCHANGED <<term, hist, conn>>
  /\ UNCHANGED <<pending, orderVars>>
  /\ UNCHANGED restVars

\* raise LoginError after the loop, re-raised by connect()
LoginExhausted ==
  /\ frame.pc = "login"
  /\ ~RetryAllowed(frame.retries, conn.max_retries)
  /\ frame' = [frame EXCEPT !.pc = "done",
                            !.outcome = ConnectFailed("LoginError")]
  /\ conn' = [conn EXCEPT !.connected = FALSE]
  /\ UNCHANGED <<term, hist, clock, pending, orderVars, lastError>>
  /\ UNCHANGED restVars

\* disconnect()
Disconnect ==
  /\ frame.pc = "idle"
  /\ IF ~NeedsShutdown(conn)
     THEN /\ frame' = [NoFrame EXCEPT !.op = "disconnect", !.pc = "done",
                                      !.outcome = ReturnedTrue]
          /\ UNCHANGED <<conn, term, hist>>
     ELSE \E reply \in ShutdownReplies :
            IF reply.result = "True"
               \/ (reply.result # "True" /\ reply.not_initialized)
            THEN /\ frame' = [NoFrame EXCEPT !.op = "disconnect",
                                !.pc = "done", !.shutdownCalls = 1,
                                !.outcome = ReturnedTrue]
                 /\ conn' = [conn EXCEPT !.connected = FALSE]
                 /\ term' = NoTerminal
                 /\ hist' = [hist EXCEPT !.linkHeld = FALSE]
            ELSE /\ frame' = [NoFrame EXCEPT !.op = "disconnect",
                                !.pc = "done", !.shutdownCalls = 1,
                                !.outcome = DisconnectFailed]
                 /\ UNCHANGED <<conn, term, hist>>
  /\ UNCHANGED <<clock, pending, orderVars, lastError>>
  /\ UNCHANGED restVars

\* is_connected(); cause records a terminal that did not answer with an
\* info whose connected flag is set although the link is initialized
IsConnectedCall ==
  /\ frame.pc = "idle"
  /\ \E info \in TerminalInfoReplies(term) :
       frame' = [NoFrame EXCEPT
                   !.op = "is_connected", !.pc = "done",
                   !.outcome =
                      [ kind |-> "return",
                        value |-> IF IsConnected(info, conn.connected)
                                  THEN "True" ELSE "False",
                        cause |-> IF info.kind = "raise"
                                     \/ (info.kind = "info" /\ ~info.connected)
                                  THEN "unreachable" ELSE "" ]]
  /\ UNCHANGED <<conn, term, hist, clock, pending, orderVars, lastError>>
  /\ UNCHANGED restVars

\* the call is over: the caller has its value or its exception; hist keeps
\* the last connect() or disconnect()
ConnReturn ==
  /\ frame.pc = "done"
  /\ hist' = IF frame.op = "is_connected" THEN hist
             ELSE [hist EXCEPT !.prevOp = frame.op,
                               !.prevOutcome = frame.outcome]
  /\ frame' = NoFrame
  /\ UNCHANGED <<conn, term, clock, pending, orderVars, lastError>>
  /\ UNCHANGED restVars

\* time passes between two calls
Tick ==
  /\ frame.pc = "idle"
  /\ \E d \in TickSteps :
       /\ clock + d <= MaxTime
       /\ clock' = clock + d
  /\ UNCHANGED <<conn, term, frame, hist, pending, orderVars, lastError>>
  /\ UNCHANGED restVars

ConnNext ==
  \/ Connect \/ TerminalInfo \/ InitializeAttempt \/ InitializeExhausted
  \/ AccountInfo \/ LoginAttempt \/ LoginExhausted
  \/ Disconnect \/ IsConnectedCall \/ ConnReturn \/ Tick

ConnSpec == ConnInit /\ [][ConnNext]_vars

(***************************************************************************)
(* Vocabulary of the connection claims.                                    *)
(***************************************************************************)
ConnectDone == frame.op = "connect" /\ frame.pc = "done"
DisconnectDone == frame.op = "disconnect" /\ frame.pc = "done"
WasNoop == frame.outcome = ReturnedTrue /\ frame.shutdownCalls = 0

C16_LinkReleased ==
  DisconnectDone /\ frame.outcome.kind = "return" => ~hist.linkHeld

(***************************************************************************)
(* C17: within one connect() call initialization is attempted at most      *)
(* max_retries times and login at most max_retries times, and login has    *)
(* all its max_retries attempts however many initialization used.          *)
(***************************************************************************)
C17_AttemptsBounded ==
  /\ frame.initAttempts <= conn.max_retries
  /\ frame.loginAttempts <= conn.max_retries
  /\ ConnectDone /\ frame.outcome.cause = "LoginError"
     /\ frame.loginAttempts > 0
       => frame.loginAttempts = conn.max_retries

C17_Witness ==
  /\ ConnectDone /\ conn.max_retries > 1
  /\ frame.initAttempts = conn.max_retries
  /\ frame.loginAttempts = conn.max_retries

(***************************************************************************)
(* C18: if every initialization attempt, or every login attempt, failed    *)
(* until max_retries was exhausted, connect() raises ConnectionError; it   *)
(* returns no value.                                                       *)
(***************************************************************************)
C18_ExhaustionRaises ==
  ConnectDone
  /\ \/ frame.initFailures = conn.max_retries
     \/ frame.loginFailures = conn.max_retries
    => frame.outcome.kind = "raise" /\ frame.outcome.value = "ConnectionError"

C18_Witness ==
  /\ ConnectDone /\ frame.initAttempts > 0 /\ frame.initFailures = 0
  /\ frame.loginFailures = conn.max_retries
  /\ frame.outcome = ConnectFailed("LoginError")

(***************************************************************************)
(* C19: when an initialization attempt or a login attempt fails with the   *)
(* "authorization failed" error, the wait before the next retry is the     *)
(* fixed cooldown (twice cooldown_time), not the exponential backoff.      *)
(***************************************************************************)
C19_AuthorizationCooldown ==
  frame.lastSleep.code = AuthorizationFailed
    => frame.lastSleep.base = conn.cooldown_time * 2

(***************************************************************************)
(* C20: a connect() call that follows an earlier one does not contact the  *)
(* terminal until cooldown_time has passed since the timestamp the earlier *)
(* call recorded.                                                          *)
(***************************************************************************)
C20_CooldownBetweenAttempts ==
  frame.op = "connect" /\ frame.pc # "terminal_info" /\ frame.prevStamp > 0
    => frame.contactAt >= frame.prevStamp + conn.cooldown_time

C20_Witness ==
  /\ frame.op = "connect" /\ frame.pc # "terminal_info"
  /\ frame.prevStamp > 0 /\ frame.cooldownSlept > 0
  /\ frame.contactAt = frame.prevStamp + conn.cooldown_time

C22_PhaseErrorRaised ==
  ConnectDone /\ frame.outcome.kind = "raise"
    => /\ frame.outcome.value \in {"InitializationError", "LoginError"}
       /\ frame.outcome.value = frame.outcome.cause

(***************************************************************************)
(* C29: with credentials configured, connect() returns True only if the    *)
(* terminal is logged in to the configured account.                        *)
(***************************************************************************)
C29_SuccessMeansConfiguredAccount ==
  ConnectDone /\ frame.outcome = ReturnedTrue /\ conn.credentials = "given"
    => term.account = "configured"

(***************************************************************************)
(* Type registry lookups: to_string, to_code and exists of OrderType and   *)
(* TradeRequestActions.                                                    *)
(***************************************************************************)
\* codes passed to the lookups range over -1..MaxCode
MaxCode == 11

Registries == {"OrderType", "TradeRequestActions"}

\* name |-> value of the members of the enumeration
RegistryCodes(enum) ==
  IF enum = "OrderType" THEN OrderTypeCode ELSE TradeRequestActionCode

\* str.upper() on the strings the callers pass
LowerCase ==
  [ buy |-> "BUY", sell_limit |-> "SELL_LIMIT", deal |-> "DEAL",
    close_by |-> "CLOSE_BY", hold |-> "HOLD" ]

Upper(x) == IF x \in DOMAIN LowerCase THEN LowerCase[x] ELSE x

\* bool(v) of a Python value
Truthy(v) ==
  CASE v.t = "None" -> FALSE
    [] v.t = "str" -> v.s # ""
    [] OTHER -> v.n # 0

\* f"UNKNOWN_{code}"
Placeholder(code) ==
  [ t |-> "str", n |-> code.n,
    s |-> IF code.t = "int" THEN "UNKNOWN_" ELSE "UNKNOWN_None" ]

PyRaise(e) == [t |-> "raise", n |-> 0, s |-> e]

\* to_string(code, default): the name of the member whose value == code,
\* else default or f"UNKNOWN_{code}"
EnumToString(enum, code, default) ==
  LET codes == RegistryCodes(enum)
  IN IF code.t = "int" /\ \E nm \in DOMAIN codes : codes[nm] = code.n
     THEN PyStr(CHOOSE nm \in DOMAIN codes : codes[nm] = code.n)
     ELSE IF Truthy(default) THEN default ELSE Placeholder(code)

\* what cls[name.upper()] raises: AttributeError when name has no upper(),
\* KeyError when there is no such member
MemberLookupError(enum, name) ==
  IF name.t # "str" THEN "AttributeError"
  ELSE IF Upper(name.s) \notin DOMAIN RegistryCodes(enum) THEN "KeyError"
  ELSE "none"

\* the member itself is returned, not its value
ToCodeMember(enum, name, default) ==
  LET e == MemberLookupError(enum, name)
  IN IF e = "none"
     THEN [t |-> "member", n |-> RegistryCodes(enum)[Upper(name.s)],
           s |-> Upper(name.s)]
     ELSE IF e \in {"KeyError", "AttributeError"} THEN default
     ELSE PyRaise(e)

\* to_code(name, default): cls[name.upper()].value, default on KeyError or
\* AttributeError
ToCode(enum, name, default) ==
  LET e == MemberLookupError(enum, name)
  IN IF e = "none" THEN PyInt(RegistryCodes(enum)[Upper(name.s)])
     ELSE IF e \in {"KeyError", "AttributeError"} THEN default
     ELSE PyRaise(e)

\* exists(key): by value for an int, by upper-cased name for a str (only
\* KeyError is caught there), False for anything else
Exists(enum, key) ==
  LET codes == RegistryCodes(enum)
  IN IF key.t = "int"
     THEN PyBool(\E nm \in DOMAIN codes : codes[nm] = key.n)
     ELSE IF key.t = "str"
     THEN LET e == MemberLookupError(enum, key)
          IN IF e = "none" THEN PyBool(TRUE)
             ELSE IF e = "KeyError" THEN PyBool(FALSE)
             ELSE PyRaise(e)
     ELSE PyBool(FALSE)

CodeArgs == { PyInt(c) : c \in -1..MaxCode } \cup {PyNone}

NameArgs ==
  { PyStr(x) : x \in OrderTypeNames \cup TradeRequestActionNames
                      \cup DOMAIN LowerCase \cup {""} }
    \cup {PyNone, PyInt(0)}

StringDefaults == {PyNone, PyStr(""), PyStr("N/A")}

CodeDefaults == {PyNone, PyInt(0), PyInt(-1)}

ToStringCall ==
  /\ reg.fn = "none"
  /\ \E enum \in Registries, code \in CodeArgs, default \in StringDefaults :
       reg' = [ enum |-> enum, fn |-> "to_string", arg |-> code,
                default |-> default, out |-> EnumToString(enum, code, default) ]
  /\ UNCHANGED <<orderVars, lastError, pending, connVars, query, srv>>

ToCodeCall ==
  /\ reg.fn = "none"
  /\ \E enum \in Registries, name \in NameArgs, default \in CodeDefaults :
       reg' = [ enum |-> enum, fn |-> "to_code", arg |-> name,
                default |-> default, out |-> ToCode(enum, name, default) ]
  /\ UNCHANGED <<orderVars, lastError, pending, connVars, query, srv>>

ExistsCall ==
  /\ reg.fn = "none"
  /\ \E enum \in Registries, key \in CodeArgs \cup NameArgs :
       reg' = [ enum |-> enum, fn |-> "exists", arg |-> key,
                default |-> PyNone, out |-> Exists(enum, key) ]
  /\ UNCHANGED <<orderVars, lastError, pending, connVars, query, srv>>

\* to_code(to_string(code))
RoundTripCall ==
  /\ reg.fn = "none"
  /\ \E enum \in Registries, code \in CodeArgs :
       reg' = [ enum |-> enum, fn |-> "to_code(to_string)", arg |-> code,
                default |-> PyNone,
                out |-> ToCode(enum, EnumToString(enum, code, PyNone), PyNone) ]
  /\ UNCHANGED <<orderVars, lastError, pending, connVars, query, srv>>

RegistryReturn ==
  /\ reg.fn # "none"
  /\ reg' = NoRegistryCall
  /\ UNCHANGED <<orderVars, lastError, pending, connVars, query, srv>>

RegistryNext ==
  ToStringCall \/ ToCodeCall \/ ExistsCall \/ RoundTripCall \/ RegistryReturn

RegistrySpec == Init /\ [][RegistryNext]_vars

\* the code is the value of a member of the enumeration
IsMemberCode(enum, code) ==
  code.t = "int"
  /\ \E nm \in DOMAIN RegistryCodes(enum) : RegistryCodes(enum)[nm] = code.n

(***************************************************************************)
(* C25: for every order type code t of the OrderType enumeration,          *)
(* to_code(to_string(t)) returns t.                                        *)
(***************************************************************************)
C25_RoundTrip ==
  reg.fn = "to_code(to_string)" /\ reg.enum = "OrderType"
  /\ IsMemberCode("OrderType", reg.arg)
    => reg.out = reg.arg

C25_Witness ==
  /\ reg.fn = "to_code(to_string)" /\ reg.enum = "OrderType"
  /\ reg.arg = PyInt(OrderTypeCode["CLOSE_BY"]) /\ reg.out = reg.arg

(***************************************************************************)
(* C26: the lookups never raise, and for a code that is not in the         *)
(* enumeration to_string returns the caller's default whenever one was     *)
(* supplied and the placeholder UNKNOWN_<code> otherwise.                  *)
(***************************************************************************)
C26_TotalWithDefault ==
  /\ reg.out.t # "raise"
  /\ reg.fn = "to_string" /\ ~IsMemberCode(reg.enum, reg.arg)
       => reg.out = IF reg.default # PyNone THEN reg.default
                    ELSE Placeholder(reg.arg)

(***************************************************************************)
(* Queries: MT5Orders._get_positions and _get_pending_orders, and          *)
(* MT5History.get_deals and get_orders.  The terminal holds the records of *)
(* Book; each of its calls answers, or answers None, or raises.            *)
(***************************************************************************)
\* the records the terminal holds, the same for every kind of query
Book ==
  { [ticket |-> 1, symbol |-> "EURUSD", type_code |-> 0],
    [ticket |-> 2, symbol |-> "EURUSD", type_code |-> 1],
    [ticket |-> 3, symbol |-> "GBPUSD", type_code |-> 0] }

\* int(ticket) of the strings the callers pass; a string outside the table
\* makes int() raise ValueError
NumericStrings == [two |-> 2, three |-> 3]

TicketArgs ==
  {PyNone, PyInt(1), PyInt(3), PyInt(9), PyStr("two"), PyStr("abc")}

SymbolArgs == {PyNone, PyStr("EURUSD"), PyStr("GBPUSD"), PyStr("XAUUSD")}

GroupArgs == {PyNone, PyStr("*USD*"), PyStr("*JPY*")}

OrderTypeArgs == {PyNone, PyStr("buy"), PyInt(1)}

\* the symbols a name or a group pattern of mt5.symbols_get matches
SymbolsMatching(pattern) ==
  IF pattern = "*USD*" THEN Catalogue ELSE {x \in Catalogue : x = pattern}

\* mt5.symbols_get(pattern): the matching symbols, or None
LookupReplies(pattern) ==
  {NoneReply, [ok |-> TRUE, names |-> SymbolsMatching(pattern)]}

\* the ticket as the terminal call receives it
TicketInt(ticket) ==
  IF ticket.t = "str" THEN NumericStrings[ticket.s] ELSE ticket.n

\* which argument the terminal call is filtered by: ticket before symbol
\* before group
FilterOf(ticket, symbol_name, group) ==
  IF ticket # PyNone THEN "ticket"
  ELSE IF symbol_name # PyNone THEN "symbol"
  ELSE IF group # PyNone THEN "group"
  ELSE "all"

\* what mt5.positions_get / orders_get answers when it answers
TerminalRows(ticket, symbol_name, group) ==
  CASE FilterOf(ticket, symbol_name, group) = "ticket" ->
         {r \in Book : r.ticket = TicketInt(ticket)}
    [] FilterOf(ticket, symbol_name, group) = "symbol" ->
         {r \in Book : r.symbol = symbol_name.s}
    [] FilterOf(ticket, symbol_name, group) = "group" ->
         {r \in Book : r.symbol \in SymbolsMatching(group.s)}
    [] OTHER -> Book

\* the order_type filter on the converted table
TypeFiltered(rows, order_type) ==
  IF order_type = PyNone \/ rows = {} THEN rows
  ELSE LET code == IF order_type.t = "str"
                   THEN ToCode("OrderType", order_type, PyNone)
                   ELSE order_type
       IN {r \in rows : PyInt(r.type_code) = code}

QueryReturned(rows) == [kind |-> "return", rows |-> rows, error |-> ""]
QueryRaised(e) == [kind |-> "raise", rows |-> {}, error |-> e]

\* if (ticket is not None): if symbol_name: market.get_symbols(symbol_name)
SymbolLookupNeeded(ticket, symbol_name) ==
  ticket # PyNone /\ Truthy(symbol_name)

GroupLookupNeeded(ticket, group) == ticket # PyNone /\ Truthy(group)

\* _get_positions / _get_pending_orders, given what the terminal answers to
\* the two symbol lookups and to the data call ("rows", "None" or "raise")
TableQuery(fn, ticket, symbol_name, group, order_type, symReply, grpReply, data) ==
  LET q == [NoQuery EXCEPT !.fn = fn, !.phase = "done", !.ticket = ticket,
                           !.symbol_name = symbol_name, !.group = group,
                           !.order_type = order_type]
      needSym == SymbolLookupNeeded(ticket, symbol_name)
      needGrp == GroupLookupNeeded(ticket, group)
  IN IF needSym /\ ~symReply.ok
     THEN [q EXCEPT !.lookups = 1, !.out = QueryRaised("TypeError")]
     ELSE IF needSym /\ Cardinality(symReply.names) # 1
     THEN [q EXCEPT !.lookups = 1, !.out = QueryReturned({})]
     ELSE IF needGrp /\ ~grpReply.ok
     THEN [q EXCEPT !.lookups = (IF needSym THEN 2 ELSE 1),
                    !.out = QueryRaised("TypeError")]
     ELSE IF needGrp /\ grpReply.names = {}
     THEN [q EXCEPT !.lookups = (IF needSym THEN 2 ELSE 1),
                    !.out = QueryReturned({})]
     ELSE LET looked == [q EXCEPT !.lookups = (IF needSym THEN 1 ELSE 0)
                                              + (IF needGrp THEN 1 ELSE 0)]
          IN IF ticket.t = "str" /\ ticket.s \notin DOMAIN NumericStrings
             THEN [looked EXCEPT !.out = QueryReturned({})]
             ELSE LET called ==
                        [looked EXCEPT
                           !.calls = 1,
                           !.filter = FilterOf(ticket, symbol_name, group)]
                  IN CASE data = "raise" ->
                            [called EXCEPT !.failed = TRUE,
                                           !.out = QueryRaised("Exception")]
                       [] data = "None" ->
                            [called EXCEPT !.failed = TRUE,
                                           !.out = QueryReturned({})]
                       [] OTHER ->
                            [called EXCEPT
                               !.out = QueryReturned(TypeFiltered(
                                  TerminalRows(ticket, symbol_name, group),
                                  order_type))]

\* MT5History.get_deals / get_orders: not connected raises ConnectionError;
\* an exception or a None from the terminal raises the history error
HistoryQuery(fn, ticket, group, connected, data) ==
  LET q == [NoQuery EXCEPT !.fn = fn, !.phase = "done", !.ticket = ticket,
                           !.group = group, !.connected = connected]
  IN IF ~connected THEN [q EXCEPT !.out = QueryRaised("ConnectionError")]
     ELSE LET called == [q EXCEPT !.calls = 1,
                                  !.filter = FilterOf(ticket, PyNone, group)]
              error == IF fn = "history_deals" THEN "DealsHistoryError"
                       ELSE "OrdersHistoryError"
          IN IF data \in {"raise", "None"}
             THEN [called EXCEPT !.failed = TRUE, !.out = QueryRaised(error)]
             ELSE [called EXCEPT
                     !.out = QueryReturned(TerminalRows(ticket, PyNone, group))]

DataReplies == {"rows", "None", "raise"}

TableQueryCall(fn) ==
  /\ query.phase = "idle"
  /\ \E ticket \in TicketArgs, symbol_name \in SymbolArgs, group \in GroupArgs,
        order_type \in OrderTypeArgs, data \in DataReplies :
       \E symReply \in IF SymbolLookupNeeded(ticket, symbol_name)
                       THEN LookupReplies(symbol_name.s) ELSE {NoneReply} :
         \E grpReply \in IF GroupLookupNeeded(ticket, group)
                         THEN LookupReplies(group.s) ELSE {NoneReply} :
           query' = TableQuery(fn, ticket, symbol_name, group, order_type,
                               symReply, grpReply, data)
  /\ UNCHANGED <<orderVars, lastError, pending, connVars, reg, srv>>

GetPositions == TableQueryCall("positions")

GetPendingOrders == TableQueryCall("pending_orders")

HistoryQueryCall(fn) ==
  /\ query.phase = "idle"
  /\ \E ticket \in {PyNone, PyInt(1), PyInt(9)}, group \in GroupArgs,
        connected \in BOOLEAN, data \in DataReplies :
       query' = HistoryQuery(fn, ticket, group, connected, data)
  /\ UNCHANGED <<orderVars, lastError, pending, connVars, reg, srv>>

GetDeals == HistoryQueryCall("history_deals")

GetHistoryOrders == HistoryQueryCall("history_orders")

QueryReturn ==
  /\ query.phase = "done"
  /\ query' = NoQuery
  /\ UNCHANGED <<orderVars, lastError, pending, connVars, reg, srv>>

QueryNext ==
  GetPositions \/ GetPendingOrders \/ GetDeals \/ GetHistoryOrders
  \/ QueryReturn

QuerySpec == Init /\ [][QueryNext]_vars

(***************************************************************************)
(* C23: when the position query or the pending-order query is called with  *)
(* both ticket and symbol set and the terminal answers, the terminal call  *)
(* is filtered by the ticket and the result is the terminal's records of   *)
(* that ticket, whatever the symbol is.                                    *)
(***************************************************************************)
C23_TicketAlone ==
  ( /\ query.fn \in {"positions", "pending_orders"} /\ query.phase = "done"
    /\ query.ticket # PyNone /\ query.symbol_name # PyNone
    /\ query.group = PyNone
    /\ query.out.kind = "return" /\ ~query.failed )
  => query.out.rows =
       TypeFiltered(
         IF query.ticket.t = "str"
            /\ query.ticket.s \notin DOMAIN NumericStrings
         THEN {} ELSE TerminalRows(query.ticket, PyNone, PyNone),
         query.order_type)

(***************************************************************************)
(* C24: when the terminal call behind a query fails, the terminal was      *)
(* called exactly once and the caller receives an error, not a table or a  *)
(* list.                                                                   *)
(***************************************************************************)
C24_FailureSurfaces ==
  query.phase = "done" /\ query.failed
    => query.calls = 1 /\ query.out.kind = "raise"

(***************************************************************************)
(* mcp_server.logic.mt5_connection: the global client, the lock and the    *)
(* threads that call get_mt5_client, initialize_mt5_client and disconnect. *)
(* A step is one access to the globals, one lock operation or one call of  *)
(* the client; client 0 is None.                                           *)
(***************************************************************************)
\* more MT5Client objects than this are not created
MaxClients == 2
\* the wall clock is not followed beyond MaxServerTime seconds
MaxServerTime == 180

ServerInit ==
  /\ srv \in { NoServer(a, c) : a \in BOOLEAN, c \in BOOLEAN }
  /\ reg = NoRegistryCall
  /\ query = NoQuery
  /\ pending = NoPending
  /\ conn = NewConnection(MaxRetriesDefault, "none")
  /\ term = NoTerminal
  /\ frame = NoFrame
  /\ clock = 1
  /\ hist = NoHist
  /\ pc = "idle"
  /\ req = NoRequest
  /\ result = NoResult
  /\ sendCount = 0
  /\ sentRequest = NoSentRequest
  /\ symbolsReply = NoneReply
  /\ orderReply = NoOrderReply
  /\ lastError = 1

serverRest == <<orderVars, lastError, pending, connVars, reg, query>>

\* mt5_client and mt5_client.is_connected(), both read at once
ClientConnected == srv.mt5_client # 0 /\ srv.mt5_client \in srv.live

\* the value a call hands back; shut tells whether disconnect() had already
\* shut that client down
ReturnValue(value) ==
  [kind |-> "return", value |-> value, shut |-> value \in srv.shut]

RaisedError == [kind |-> "raise", value |-> 0, shut |-> FALSE]

\* the reconnect interval is not consulted
IntervalElapsedAlways(now, last) == TRUE

\* not (current_time - _last_connection_attempt < _reconnect_interval)
IntervalElapsed(now, last) == ~(now - last < ReconnectInterval)

\* get_mt5_client(), line 96 first operand: the global is read for its truth
GetCall(t) ==
  /\ srv.th[t].pc = "idle"
  /\ srv' = [srv EXCEPT
               !.th[t] = [NoThread EXCEPT
                            !.op = "get",
                            !.pc = IF srv.mt5_client # 0
                                   THEN "quick_is_connected"
                                   ELSE "acquire"]]
  /\ UNCHANGED serverRest

\* line 96 second operand: the global is read again and is_connected() is
\* called on it; on None that is an AttributeError
GetQuickIsConnected(t) ==
  /\ srv.th[t].pc = "quick_is_connected"
  /\ srv' = IF srv.mt5_client = 0
            THEN [srv EXCEPT !.th[t].pc = "returned",
                             !.th[t].ret = RaisedError]
            ELSE IF srv.mt5_client \in srv.live
            THEN [srv EXCEPT !.th[t].pc = "quick_return"]
            ELSE [srv EXCEPT !.th[t].pc = "acquire"]
  /\ UNCHANGED serverRest

\* line 97: the global is read a third time and returned
GetQuickReturn(t) ==
  /\ srv.th[t].pc = "quick_return"
  /\ srv' = [srv EXCEPT !.th[t].pc = "returned",
                        !.th[t].ret = ReturnValue(srv.mt5_client)]
  /\ UNCHANGED serverRest

\* _connection_lock is a threading.Lock: it is taken only when it is free,
\* whoever holds it
Acquired(t, next) == [srv EXCEPT !.lock = t, !.th[t].pc = next]

\* line 100: with _connection_lock
GetAcquire(t) ==
  /\ srv.th[t].pc = "acquire"
  /\ srv.lock = "free"
  /\ srv' = Acquired(t, "locked_check")
  /\ UNCHANGED serverRest

\* lines 102-111 under the lock: the second check, the reconnect interval,
\* and the call of initialize_mt5_client()
GetLocked(t) ==
  /\ srv.th[t].pc = "locked_check"
  /\ srv' = IF ClientConnected
            THEN [srv EXCEPT !.lock = "free", !.th[t].pc = "returned",
                             !.th[t].ret = ReturnValue(srv.mt5_client)]
            ELSE IF ~IntervalElapsed(srv.now, srv.last_connection_attempt)
            THEN [srv EXCEPT !.lock = "free", !.th[t].pc = "returned",
                             !.th[t].checkedAt = srv.now,
                             !.th[t].lastSeen = srv.last_connection_attempt,
                             !.th[t].ret = ReturnValue(0)]
            ELSE [srv EXCEPT !.th[t].pc = "init_call",
                             !.th[t].nested = TRUE,
                             !.th[t].attempted = TRUE,
                             !.th[t].checkedAt = srv.now,
                             !.th[t].lastSeen = srv.last_connection_attempt]
  /\ UNCHANGED serverRest

\* initialize_mt5_client() comes back to its caller: to get_mt5_client()
\* when it was called from there
InitReturns(s, t, value) ==
  IF s.th[t].nested
  THEN [s EXCEPT !.th[t].pc = "get_after_init", !.th[t].initResult = value]
  ELSE [s EXCEPT !.th[t].pc = "returned",
                 !.th[t].ret = [kind |-> "return",
                                value |-> IF value THEN 1 ELSE 0,
                                shut |-> FALSE]]

\* initialize_mt5_client() called by a thread, lines 33-35
InitCall(t) ==
  /\ srv.th[t].pc = "idle"
  /\ srv' = IF ~srv.available
            THEN InitReturns([srv EXCEPT !.th[t] =
                                [NoThread EXCEPT !.op = "init"]], t, FALSE)
            ELSE [srv EXCEPT !.th[t] = [NoThread EXCEPT !.op = "init",
                                                        !.pc = "init_acquire"]]
  /\ UNCHANGED serverRest

\* initialize_mt5_client() called by get_mt5_client(), lines 33-35
InitNestedCall(t) ==
  /\ srv.th[t].pc = "init_call"
  /\ srv' = IF ~srv.available
            THEN InitReturns(srv, t, FALSE)
            ELSE [srv EXCEPT !.th[t].pc = "init_acquire"]
  /\ UNCHANGED serverRest

\* line 37: with _connection_lock
InitAcquire(t) ==
  /\ srv.th[t].pc = "init_acquire"
  /\ srv.lock = "free"
  /\ srv' = Acquired(t, "init_locked")
  /\ UNCHANGED serverRest

\* lines 38-68 under the lock, up to the call of connect()
InitLocked(t) ==
  /\ srv.th[t].pc = "init_locked"
  /\ srv' = IF ClientConnected
            THEN InitReturns([srv EXCEPT !.lock = "free"], t, TRUE)
            ELSE IF ~srv.has_credentials
            THEN InitReturns([srv EXCEPT !.lock = "free"], t, FALSE)
            ELSE [srv EXCEPT !.last_connection_attempt = srv.now,
                             !.made = srv.made + 1,
                             !.mt5_client = srv.made + 1,
                             !.th[t].pc = "init_connect"]
  /\ ~ClientConnected /\ srv.has_credentials => srv.made < MaxClients
  /\ UNCHANGED serverRest

\* lines 71-85: connect() returns True, or returns False or raises
InitConnect(t) ==
  /\ srv.th[t].pc = "init_connect"
  /\ \E connected \in BOOLEAN :
       srv' = IF connected
              THEN InitReturns([srv EXCEPT
                                  !.live = srv.live \cup {srv.mt5_client},
                                  !.lock = "free"], t, TRUE)
              ELSE InitReturns([srv EXCEPT !.mt5_client = 0,
                                           !.lock = "free"], t, FALSE)
  /\ UNCHANGED serverRest

\* lines 111-114 and the end of the with block of get_mt5_client(); releasing
\* a lock that is not held raises RuntimeError
GetAfterInit(t) ==
  /\ srv.th[t].pc = "get_after_init"
  /\ srv' = IF srv.lock # t
            THEN [srv EXCEPT !.th[t].pc = "returned",
                             !.th[t].ret = RaisedError]
            ELSE [srv EXCEPT !.lock = "free", !.th[t].pc = "returned",
                             !.th[t].ret =
                                IF srv.th[t].initResult
                                THEN ReturnValue(srv.mt5_client)
                                ELSE ReturnValue(0)]
  /\ UNCHANGED serverRest

\* disconnect() called by a thread
DiscCall(t) ==
  /\ srv.th[t].pc = "idle"
  /\ srv' = [srv EXCEPT !.th[t] = [NoThread EXCEPT !.op = "disc",
                                                   !.pc = "disc_acquire"]]
  /\ UNCHANGED serverRest

\* line 120: with _connection_lock
DiscAcquire(t) ==
  /\ srv.th[t].pc = "disc_acquire"
  /\ srv.lock = "free"
  /\ srv' = Acquired(t, "disc_locked")
  /\ UNCHANGED serverRest

\* lines 121-122: if mt5_client: mt5_client.disconnect(), which returns or
\* raises DisconnectionError
DiscShutdown(t) ==
  /\ srv.th[t].pc = "disc_locked"
  /\ IF srv.mt5_client = 0
     THEN srv' = [srv EXCEPT !.lock = "free", !.th[t].pc = "returned",
                             !.th[t].ret = ReturnValue(0)]
     ELSE \E done \in BOOLEAN :
            srv' = IF done
                   THEN [srv EXCEPT
                           !.live = srv.live \ {srv.mt5_client},
                           !.shut = srv.shut \cup {srv.mt5_client},
                           !.th[t].pc = "disc_clear"]
                   ELSE [srv EXCEPT !.lock = "free", !.th[t].pc = "returned",
                                    !.th[t].ret = RaisedError]
  /\ UNCHANGED serverRest

\* line 124: mt5_client = None, and the end of the with block
DiscClear(t) ==
  /\ srv.th[t].pc = "disc_clear"
  /\ srv' = [srv EXCEPT !.mt5_client = 0, !.lock = "free",
                        !.th[t].pc = "returned",
                        !.th[t].ret = ReturnValue(0)]
  /\ UNCHANGED serverRest

\* the caller has its value
ThreadReturn(t) ==
  /\ srv.th[t].pc = "returned"
  /\ srv' = [srv EXCEPT !.th[t] = NoThread]
  /\ UNCHANGED serverRest

\* the terminal drops the connection of a client: is_connected() turns False
ConnectionLost ==
  /\ \E c \in srv.live : srv' = [srv EXCEPT !.live = srv.live \ {c}]
  /\ UNCHANGED serverRest

\* time passes
ServerTick ==
  /\ srv.now + ReconnectInterval \div 2 <= MaxServerTime
  /\ srv' = [srv EXCEPT !.now = srv.now + ReconnectInterval \div 2]
  /\ UNCHANGED serverRest

\* the steps of a call that is under way
ThreadProgress(t) ==
  \/ GetQuickIsConnected(t) \/ GetQuickReturn(t) \/ GetAcquire(t)
  \/ GetLocked(t) \/ InitNestedCall(t) \/ InitAcquire(t) \/ InitLocked(t)
  \/ InitConnect(t) \/ GetAfterInit(t) \/ DiscAcquire(t) \/ DiscShutdown(t)
  \/ DiscClear(t) \/ ThreadReturn(t)

ServerNext ==
  \/ \E t \in Threads : GetCall(t) \/ InitCall(t) \/ DiscCall(t)
  \/ \E t \in Threads : ThreadProgress(t)
  \/ ConnectionLost
  \/ ServerTick

ServerSpec == ServerInit /\ [][ServerNext]_vars

\* every thread that can take a step of its call eventually takes one, and
\* a thread that waits for the lock gets it if it is free again and again
ServerLiveSpec ==
  ServerSpec /\ \A t \in Threads : SF_vars(ThreadProgress(t))

\* a call of get_mt5_client() by thread t is under way
InGet(t) == srv.th[t].op = "get" /\ srv.th[t].pc # "returned"

\* the call of get_mt5_client() by thread t has returned a value and the
\* thread does not hold the lock
GetReturned(t) ==
  /\ srv.th[t].op = "get"
  /\ srv.th[t].pc = "returned"
  /\ srv.th[t].ret.kind = "return"
  /\ srv.lock # t

\* C27: every call of get_mt5_client() eventually returns a client or None
\* and leaves _connection_lock free, the path through
\* initialize_mt5_client() included.
C27_GetEventuallyReturns ==
  \A t \in Threads : InGet(t) ~> GetReturned(t)

\* C28: whatever the interleaving with initialize_mt5_client() and
\* disconnect(), get_mt5_client() never raises and never hands back a client
\* that disconnect() had already shut down.
C28_GetNeverRaisesNorShut ==
  \A t \in Threads :
    (srv.th[t].op = "get" /\ srv.th[t].pc = "returned") =>
      (srv.th[t].ret.kind = "return" /\ ~srv.th[t].ret.shut)

\* C30: get_mt5_client() calls initialize_mt5_client() only when at least
\* ReconnectInterval seconds have passed since the recorded attempt, and a
\* call that finds the interval not elapsed returns None without an attempt.
C30_AttemptOnlyAfterInterval ==
  \A t \in Threads :
    (srv.th[t].op = "get" /\ srv.th[t].checkedAt > 0) =>
      IF srv.th[t].checkedAt - srv.th[t].lastSeen >= ReconnectInterval
      THEN TRUE
      ELSE /\ ~srv.th[t].attempted
           /\ srv.th[t].pc = "returned"
           /\ srv.th[t].ret = [kind |-> "return", value |-> 0, shut |-> FALSE]

\* a call of get_mt5_client() made less than ReconnectInterval seconds after
\* a recorded attempt has returned None
C30_Witness ==
  \E t \in Threads :
    /\ srv.th[t].op = "get"
    /\ srv.th[t].pc = "returned"
    /\ srv.th[t].lastSeen > 0
    /\ srv.th[t].checkedAt - srv.th[t].lastSeen < ReconnectInterval
    /\ srv.th[t].ret.value = 0
    /\ ~srv.th[t].attempted

====
